---- MODULE Spec2Model ----
(***************************************************************************)
(* A model of bin/roll-up.js: the argument parser, the manifest merge with *)
(* its backup, the stub/template/LICENSE writers and the dependency        *)
(* installer, as one sequential run of main() over a small file system,    *)
(* with the tool invoked again on the directory the previous run left.     *)
(***************************************************************************)
EXTENDS Integers, Sequences, FiniteSets, TLC

VARIABLES
  argv,      \* process.argv.slice(2)
  pc,        \* position of main()
  run,       \* number of the current invocation of the tool
  clock,     \* Date.now() of the current invocation
  opts,      \* the record parseArgs returned
  pkgFile,   \* content of package.json on disk
  backups,   \* content of package.json.setup-backup.<t>.json, by timestamp t
  files,     \* content of src/index.js, the template files and LICENSE
  pkgRaw,    \* main's pkgRaw
  pkg,       \* main's pkg
  tmplIdx,   \* position of the loop over Object.entries(DEFAULT_FILES)
  exitCode,  \* exit code of the process once it has ended
  log,       \* what this run did so far: stages entered, writes, spawns, console lines
  start      \* the directory when this invocation started, and whether the
             \* invocation before it rewrote package.json

vars == <<argv, pc, run, clock, opts, pkgFile, backups, files, pkgRaw, pkg,
          tmplIdx, exitCode, log, start>>

\* ---------------------------------------------------------------- bounds

MaxArgs == 2       \* longest argument list drawn
MaxPresent == 1    \* most top-level keys of the manifest objects drawn in bulk
MaxRuns == 2       \* invocations of the tool in a row

\* ------------------------------------------------------------- JSON values

\* A JSON value as JSON.parse builds it. t: its type; s: a string's text;
\* el: an array's elements; kv: an object's entries in insertion order (for an
\* array: the named properties set on it in memory, which JSON.stringify omits).
JV(t, s, el, kv) == [t |-> t, s |-> s, el |-> el, kv |-> kv]
Undefined == JV("undefined", "", <<>>, <<>>)
JNull == JV("null", "", <<>>, <<>>)
JFalse == JV("false", "", <<>>, <<>>)
JZero == JV("zero", "", <<>>, <<>>)
JStr(s) == JV("string", s, <<>>, <<>>)
JArr(el) == JV("array", "", el, <<>>)
JObj(kv) == JV("object", "", <<>>, kv)

\* JavaScript's ToBoolean, as `!x` and `x || y` apply it.
Truthy(v) == ~(v.t \in {"undefined", "null", "false", "zero"} \/ (v.t = "string" /\ v.s = ""))

\* F applied to the value of v, v evaluated once.
Bind(v, F(_)) == CHOOSE r \in {F(x) : x \in {v}} : TRUE

HasKey(o, k) == \E i \in 1..Len(o.kv) : o.kv[i][1] = k
KeyIdx(o, k) == CHOOSE i \in 1..Len(o.kv) : o.kv[i][1] = k

\* o[k]: an own property of an object or array, undefined otherwise (none of the
\* merged keys is a property of a string, number or boolean).
Get(o, k) ==
  Bind(o, LAMBDA x : IF x.t \in {"object", "array"} /\ HasKey(x, k) THEN x.kv[KeyIdx(x, k)][2]
                     ELSE Undefined)

\* o[k] = v in sloppy mode: replaces in place or appends on an object or array,
\* and is silently dropped on a primitive.
SetProp(o, k, v) ==
  Bind(o, LAMBDA x :
    IF x.t \notin {"object", "array"} THEN x
    ELSE IF HasKey(x, k) THEN [x EXCEPT !.kv = [x.kv EXCEPT ![KeyIdx(x, k)] = <<k, v>>]]
    ELSE [x EXCEPT !.kv = Append(x.kv, <<k, v>>)])

\* ------------------------------------------------- package.json as text

\* The text of a package.json. fmt: "absent" (no such file), "garbage" (not JSON),
\* "compact" (JSON laid out some other way than the tool's), "indent2" (JSON as
\* JSON.stringify(v, null, 2) + '\n' lays it out); val: the value the text denotes.
Text(fmt, val) == [fmt |-> fmt, val |-> val]
NoFile == Text("absent", Undefined)
Garbage == Text("garbage", Undefined)

\* JSON.parse: throws on text that is not JSON, else the value.
JSONparse(text) == [throws |-> text.fmt \notin {"compact", "indent2"}, val |-> text.val]

\* What JSON.stringify keeps of a value: an array's named properties are not
\* serialised, an object's entries are, in insertion order.
RECURSIVE Serialised(_)
Serialised(v) ==
  IF v.t = "array" THEN [v EXCEPT !.kv = <<>>]
  ELSE IF v.t = "object"
    THEN [v EXCEPT !.kv = [i \in 1..Len(v.kv) |-> <<v.kv[i][1], Serialised(v.kv[i][2])>>]]
  ELSE v

\* JSON.stringify(pkg, null, 2) + '\n'
JSONstringify(v) == Text("indent2", Serialised(v))

\* ------------------------------------------------------- merge of defaults

defaults ==
  JObj(<< <<"type", JStr("module")>>,
          <<"main", JStr("dist/cjs/index.cjs")>>,
          <<"module", JStr("dist/esm/index.js")>>,
          <<"exports", JObj(<< <<".", JObj(<< <<"import", JStr("./dist/esm/index.js")>>,
                                               <<"require", JStr("./dist/cjs/index.cjs")>>,
                                               <<"types", JStr("./dist/types/index.d.ts")>> >>)>> >>)>>,
          <<"types", JStr("dist/types/index.d.ts")>>,
          <<"files", JArr(<<"dist/">>)>>,
          <<"scripts", JObj(<< <<"build:js", JStr("rollup -c")>>,
                               <<"build:types", JStr("tsc -p tsconfig.types.json")>>,
                               <<"build", JStr("npm run build:js && npm run build:types")>>,
                               <<"prepublishOnly", JStr("npm run build")>> >>)>> >>)

SimpleKeys == <<"type", "main", "module", "types", "files">>
ScriptKeys == <<"build:js", "build:types", "build", "prepublishOnly">>

\* The same with arrays merged rather than kept: an array present gains the
\* default's elements.
FillKeyConcat(o, k, d) ==
  Bind(o, LAMBDA x :
    IF Get(x, k).t = "array" /\ Get(d, k).t = "array"
      THEN SetProp(x, k, JArr(Get(x, k).el \o Get(d, k).el))
    ELSE IF ~Truthy(Get(x, k)) THEN SetProp(x, k, Get(d, k)) ELSE x)

\* if (!o[k]) o[k] = d[k]
FillKey(o, k, d) == Bind(o, LAMBDA x : IF ~Truthy(Get(x, k)) THEN SetProp(x, k, Get(d, k)) ELSE x)

\* for (const k of keys) if (!o[k]) o[k] = d[k]
RECURSIVE FillKeys(_, _, _, _)
FillKeys(o, keys, i, d) ==
  IF i > Len(keys) THEN o ELSE FillKeys(FillKey(o, keys[i], d), keys, i + 1, d)

\* pkg.scripts = pkg.scripts || {}
InitScripts(p) ==
  Bind(p, LAMBDA x :
    SetProp(x, "scripts", IF Truthy(Get(x, "scripts")) THEN Get(x, "scripts") ELSE JObj(<<>>)))

\* The merge of main: the simple keys, exports, then the scripts. Reading a
\* property of null (pkg itself) or of undefined (pkg.scripts, when pkg is a
\* primitive and the assignment to it was dropped) throws a TypeError.
MergeDefaults(p) ==
  IF p.t = "null" THEN [throws |-> TRUE, val |-> p]
  ELSE Bind(InitScripts(FillKey(FillKeys(p, SimpleKeys, 1, defaults), "exports", defaults)),
            LAMBDA p3 :
              Bind(Get(p3, "scripts"), LAMBDA sc :
                IF sc.t = "undefined" THEN [throws |-> TRUE, val |-> p3]
                ELSE [throws |-> FALSE,
                      val |-> SetProp(p3, "scripts",
                                      FillKeys(sc, ScriptKeys, 1, Get(defaults, "scripts")))]))

\* ------------------------------------------------------------- parseArgs

\* One entry of the run's log. k: what happened; f: the file or stage it is
\* about; c: the words of a command.
Ev(k, f, c) == [k |-> k, f |-> f, c |-> c]

\* The value compared as typed, not lowercased.
ToLowerCaseForgotten(s) == s

\* String.prototype.toLowerCase on the argument tokens drawn.
ToLowerCase(s) == IF s = "NPM" THEN "npm" ELSE IF s = "Yarn" THEN "yarn" ELSE s

Managers == {"npm", "pnpm", "yarn"}

\* The record parseArgs starts from; name "" stands for null (parseArgs never
\* stores an empty string: it stores raw[i+1] only when it is truthy).
DefaultOpts == [noInstall |-> FALSE, force |-> FALSE, name |-> "", pkg |-> "npm"]

\* raw[i+1] is truthy: there is a next token and it is not the empty string.
HasValue(raw, i) == i + 1 <= Len(raw) /\ raw[i + 1] # ""

Exits(code, lines) == [exits |-> TRUE, code |-> code, out |-> DefaultOpts, lines |-> lines]

\* The loop of parseArgs from position i with the record built so far.
RECURSIVE ParseLoop(_, _, _)
ParseLoop(raw, i, out) ==
  IF i > Len(raw) THEN [exits |-> FALSE, code |-> 0, out |-> out, lines |-> <<>>]
  ELSE LET a == raw[i] IN
    IF a \in {"-h", "--help"} THEN Exits(0, <<Ev("usage", "", <<>>)>>)
    ELSE IF a = "--no-install" THEN ParseLoop(raw, i + 1, [out EXCEPT !.noInstall = TRUE])
    ELSE IF a = "--force" THEN ParseLoop(raw, i + 1, [out EXCEPT !.force = TRUE])
    ELSE IF a = "--name" THEN
      IF HasValue(raw, i) THEN ParseLoop(raw, i + 2, [out EXCEPT !.name = raw[i + 1]])
      ELSE ParseLoop(raw, i + 1, out)
    ELSE IF a \in {"--pkg", "-p"} THEN
      IF HasValue(raw, i) THEN
        IF ToLowerCase(raw[i + 1]) \notin Managers
          THEN Exits(1, <<Ev("error", "Unsupported package manager:", <<raw[i + 1]>>),
                          Ev("usage", "", <<>>)>>)
          ELSE ParseLoop(raw, i + 2, [out EXCEPT !.pkg = ToLowerCase(raw[i + 1])])
      ELSE Exits(1, <<Ev("error", "--pkg requires a value (npm, pnpm, yarn)", <<>>),
                      Ev("usage", "", <<>>)>>)
    ELSE ParseLoop(raw, i + 1, out)

parseArgs(raw) ==
  IF Len(raw) = 0 THEN Exits(0, <<Ev("usage", "", <<>>)>>)
  ELSE ParseLoop(raw, 1, DefaultOpts)

\* ----------------------------------------------------- files and commands

devDeps == <<"@rollup/plugin-commonjs@^29.0.0", "@rollup/plugin-node-resolve@^16.0.3",
             "rollup@^2.79.2", "rollup-plugin-terser@^7.0.2", "typescript@^5.9.3",
             "@types/node@^24.10.1">>

\* Object.keys(DEFAULT_FILES), in the order of the literal.
TemplateNames == <<"rollup.config.js", "tsconfig.types.json", ".gitignore", ".npmignore", "README.md">>

FileNames == {"src/index.js", "LICENSE"} \cup {TemplateNames[i] : i \in 1..Len(TemplateNames)}

\* The content of a file other than package.json: a tuple of strings, empty
\* when the file does not exist.
Absent == <<>>
UserText == <<"text the user wrote">>
DEFAULT_FILES(fname) == <<"DEFAULT_FILES", fname>>
stub == <<"// src/index.js", "export function hello()">>
CurrentYear == "2026"
licenseText(year, name) == <<"MIT License", year, name>>

existsSync(fs, f) == fs[f] # Absent

\* fs.readFile(path, 'utf8'): a byte sequence that is not UTF-8 is decoded
\* to U+FFFD, everything else to itself.
RECURSIVE DecodeValue(_)
DecodeValue(v) ==
  IF v.t = "string" THEN (IF v.s = "Ren<E9>" THEN JStr("Ren<U+FFFD>") ELSE v)
  ELSE IF v.t = "object"
    THEN [v EXCEPT !.kv = [i \in 1..Len(v.kv) |-> <<v.kv[i][1], DecodeValue(v.kv[i][2])>>]]
  ELSE v
readFileUtf8(text) == [text EXCEPT !.val = DecodeValue(text.val)]

\* `${v}` of a manifest value.
TemplateString(v) ==
  IF v.t = "string" THEN v.s
  ELSE IF v.t = "array" THEN (IF Len(v.el) = 0 THEN "" ELSE v.el[1])
  ELSE "[object Object]"

\* What execSync('git config --get user.name').trim() can give: it throws, or
\* returns no name, or a name.
GitFails == "<execSync throws>"
GitResults == {GitFails, "", "Git User"}
GitCommand == <<"git", "config", "--get", "user.name">>

\* The author of the LICENSE: opts.name || pkg.author || (git's name || 'Your Name').
NeedsGit(o, p) == o.name = "" /\ ~Truthy(Get(p, "author"))
AuthorName(o, p, git) ==
  IF o.name # "" THEN o.name
  ELSE IF Truthy(Get(p, "author")) THEN TemplateString(Get(p, "author"))
  ELSE IF git \in {GitFails, ""} THEN "Your Name" ELSE git

\* The command main passes to runCmd for a manager (with shell: true the
\* words are joined by spaces), and the one its failure message suggests.
InstallCommand(manager) ==
  IF manager = "npm" THEN <<"npm", "install", "--save-dev">> \o devDeps
  ELSE IF manager = "pnpm" THEN <<"pnpm", "add", "-D">> \o devDeps
  ELSE IF manager = "yarn" THEN <<"yarn", "add", "--dev">> \o devDeps
  ELSE <<>>
\* The failure message suggesting npm's command whatever the manager.
RetryCommandNpm(manager) == <<"npm", "install", "--save-dev">> \o devDeps

RetryCommand(manager) ==
  IF manager = "npm" THEN <<"npm", "install", "--save-dev">> \o devDeps
  ELSE IF manager = "pnpm" THEN <<"pnpm", "add", "-D">> \o devDeps
  ELSE IF manager = "yarn" THEN <<"yarn", "add", "--dev">> \o devDeps
  ELSE <<>>

\* The exit code the child's 'close' event carries, as text: a number, or
\* null when a signal ended the child.
ChildCodes == {"0", "1", "null"}

\* The existence test left out.
manifestExistsUnchecked(text) == TRUE

\* existsSync(pkgPath)
manifestExists(text) == text.fmt # "absent"

\* The backup written from the parsed value instead of the text read.
backupContentReserialised(raw, parsed) == JSONstringify(parsed)

\* What main writes to bakPath: pkgRaw.
backupContent(raw, parsed) == raw

\* The flag ignored.
skipsInstallNever(o) == FALSE

\* if (opts.noInstall)
skipsInstall(o) == o.noInstall

\* Exit code of node when a promise rejection or an exception is not handled.
UncaughtExit == 1

\* safeWrite without its existence check: it always writes.
safeWriteAlways(fs, f, content, force) ==
  [fs |-> [fs EXCEPT ![f] = content], lines |-> <<Ev("write", f, <<>>), Ev("wrote", f, <<>>)>>]

\* safeWrite that skips whatever exists, forced or not.
safeWriteNoForce(fs, f, content, force) ==
  IF existsSync(fs, f)
    THEN [fs |-> fs, lines |-> <<Ev("skipped", f, <<>>)>>]
    ELSE [fs |-> [fs EXCEPT ![f] = content],
          lines |-> <<Ev("write", f, <<>>), Ev("wrote", f, <<>>)>>]

\* safeWrite(filePath, content, force): the files and the console lines after it.
safeWrite(fs, f, content, force) ==
  IF existsSync(fs, f) /\ ~force
    THEN [fs |-> fs, lines |-> <<Ev("skipped", f, <<>>)>>]
    ELSE [fs |-> [fs EXCEPT ![f] = content],
          lines |-> <<Ev("write", f, <<>>), Ev("wrote", f, <<>>)>>]

\* ------------------------------------------------------------------ main

Stage(name) == Ev("stage", name, <<>>)

\* The process ends with the given code after the given log entries.
Exit(code, lines) ==
  /\ pc' = "exited"
  /\ exitCode' = {code}
  /\ log' = log \o lines

\* A rejection nothing handles ends main where it stands. The writes of
\* package.json, the stub, the templates and LICENSE are taken to succeed;
\* the write of the backup may fail.
Throw(lines, what) == Exit(UncaughtExit, lines \o <<Ev("uncaught", what, <<>>)>>)

\* const opts = parseArgs()
ParseArgs ==
  /\ pc = "ParseArgs"
  /\ LET r == parseArgs(argv) IN
       IF r.exits
         THEN Exit(r.code, <<Stage("ParseArgs")>> \o r.lines) /\ UNCHANGED opts
         ELSE /\ opts' = r.out
              /\ pc' = "ReadManifest"
              /\ log' = log \o <<Stage("ParseArgs")>>
              /\ UNCHANGED exitCode
  /\ UNCHANGED <<argv, run, clock, pkgFile, backups, files, pkgRaw, pkg, tmplIdx, start>>

\* The existence check of package.json and the read of it.
ReadManifest ==
  /\ pc = "ReadManifest"
  /\ IF ~manifestExists(pkgFile)
       THEN Exit(1, <<Stage("MergeManifest"), Ev("error", "No package.json found in this directory.", <<>>)>>)
            /\ UNCHANGED pkgRaw
       ELSE /\ pkgRaw' = readFileUtf8(pkgFile)
            /\ pc' = "WriteBackup"
            /\ log' = log \o <<Stage("MergeManifest")>>
            /\ UNCHANGED exitCode
  /\ UNCHANGED <<argv, run, clock, opts, pkgFile, backups, files, pkg, tmplIdx, start>>

\* JSON.parse(pkgRaw) and the write of the backup named after Date.now().
WriteBackup ==
  /\ pc = "WriteBackup"
  /\ LET r == JSONparse(pkgRaw) IN
       IF r.throws
         THEN Throw(<<>>, "JSON.parse") /\ UNCHANGED <<pkg, backups>>
         ELSE \E ok \in BOOLEAN :
           IF ok
             THEN /\ pkg' = r.val
                  /\ backups' = [backups EXCEPT ![clock] = backupContent(pkgRaw, r.val)]
                  /\ pc' = "MergeManifest"
                  /\ log' = log \o <<Ev("write", "package.json.setup-backup", <<>>),
                                     Ev("backed up", "package.json", <<>>)>>
                  /\ UNCHANGED exitCode
             ELSE Throw(<<>>, "backup write") /\ UNCHANGED <<pkg, backups>>
  /\ UNCHANGED <<argv, run, clock, opts, pkgFile, files, pkgRaw, tmplIdx, start>>

\* The merge of the defaults into pkg and the write of package.json.
MergeManifest ==
  /\ pc = "MergeManifest"
  /\ LET m == MergeDefaults(pkg) IN
       IF m.throws
         THEN Throw(<<>>, "TypeError") /\ UNCHANGED <<pkg, pkgFile>>
         ELSE /\ pkg' = m.val
              /\ pkgFile' = JSONstringify(m.val)
              /\ pc' = "WriteStub"
              /\ log' = log \o <<Ev("write", "package.json", <<>>),
                                 Ev("updated", "package.json", <<>>)>>
              /\ UNCHANGED exitCode
  /\ UNCHANGED <<argv, run, clock, opts, backups, files, pkgRaw, tmplIdx, start>>

\* src/index.js: written when missing or forced.
WriteStub ==
  /\ pc = "WriteStub"
  /\ IF ~existsSync(files, "src/index.js") \/ opts.force
       THEN /\ files' = [files EXCEPT !["src/index.js"] = stub]
            /\ log' = log \o <<Stage("WriteTemplates"), Ev("write", "src/index.js", <<>>),
                               Ev("wrote", "src/index.js", <<>>)>>
       ELSE /\ log' = log \o <<Stage("WriteTemplates"), Ev("skipped", "src/index.js", <<>>)>>
            /\ UNCHANGED files
  /\ pc' = "WriteTemplates"
  /\ tmplIdx' = 1
  /\ UNCHANGED exitCode
  /\ UNCHANGED <<argv, run, clock, opts, pkgFile, backups, pkgRaw, pkg, start>>

\* One turn of the loop over DEFAULT_FILES: safeWrite of the next file.
WriteTemplate ==
  /\ pc = "WriteTemplates"
  /\ LET f == TemplateNames[tmplIdx]
         w == safeWrite(files, f, DEFAULT_FILES(f), opts.force)
     IN /\ files' = w.fs
        /\ log' = log \o w.lines
  /\ tmplIdx' = tmplIdx + 1
  /\ pc' = IF tmplIdx = Len(TemplateNames) THEN "WriteLicense" ELSE "WriteTemplates"
  /\ UNCHANGED exitCode
  /\ UNCHANGED <<argv, run, clock, opts, pkgFile, backups, pkgRaw, pkg, start>>

\* LICENSE: written when missing or forced; the author's name may come from git.
WriteLicense ==
  /\ pc = "WriteLicense"
  /\ IF ~existsSync(files, "LICENSE") \/ opts.force
       THEN \E git \in GitResults :
         LET asked == IF NeedsGit(opts, pkg) THEN <<Ev("spawn", "execSync", GitCommand)>> ELSE <<>>
             text == licenseText(CurrentYear, AuthorName(opts, pkg, git))
         IN /\ files' = [files EXCEPT !["LICENSE"] = text]
            /\ log' = log \o <<Stage("WriteLicense")>> \o asked
                          \o <<Ev("write", "LICENSE", <<>>), Ev("wrote", "LICENSE", <<>>)>>
       ELSE /\ log' = log \o <<Stage("WriteLicense"), Ev("skipped", "LICENSE", <<>>)>>
            /\ UNCHANGED files
  /\ pc' = "Install"
  /\ UNCHANGED exitCode
  /\ UNCHANGED <<argv, run, clock, opts, pkgFile, backups, pkgRaw, pkg, tmplIdx, start>>

\* Install without the process.exit(0) of its --no-install branch: the run
\* goes on to the installer.
InstallFallsThrough ==
  /\ pc = "Install"
  /\ log' = log \o (IF opts.noInstall
                       THEN <<Ev("stage", "SkipInstall", <<>>), Ev("skipping install", "", <<>>),
                              Ev("done", "", <<>>)>>
                       ELSE <<>>)
                 \o <<Ev("stage", "RunInstaller", <<>>), Ev("installing", "", devDeps),
                      Ev("spawn", "runCmd", InstallCommand(opts.pkg))>>
  /\ pc' = "Installing"
  /\ UNCHANGED <<argv, run, clock, opts, pkgFile, backups, files, pkgRaw, pkg, tmplIdx, exitCode, start>>

\* --no-install ends the run; otherwise the installer is spawned. A manager
\* that is none of the three throws inside the try and is caught there.
Install ==
  /\ pc = "Install"
  /\ IF skipsInstall(opts)
       THEN Exit(0, <<Stage("SkipInstall"), Ev("skipping install", "", <<>>), Ev("done", "", <<>>)>>)
       ELSE IF opts.pkg \in Managers
         THEN /\ log' = log \o <<Stage("RunInstaller"), Ev("installing", "", devDeps),
                                 Ev("spawn", "runCmd", InstallCommand(opts.pkg))>>
              /\ pc' = "Installing"
              /\ UNCHANGED exitCode
         ELSE Exit(2, <<Stage("RunInstaller"), Ev("installing", "", devDeps),
                        Ev("install failed", opts.pkg, <<>>)>>)
  /\ UNCHANGED <<argv, run, clock, opts, pkgFile, backups, files, pkgRaw, pkg, tmplIdx, start>>

\* The child's 'close' event: runCmd resolves on code 0 and main returns, so
\* the process ends with code 0; otherwise it rejects and the catch exits 2.
InstallerClose ==
  /\ pc = "Installing"
  /\ \E code \in ChildCodes :
       IF code = "0"
         THEN Exit(0, <<Ev("close", code, <<>>), Ev("installed", "", <<>>), Ev("all done", "", <<>>)>>)
         ELSE Exit(2, <<Ev("close", code, <<>>), Ev("install failed", opts.pkg, <<>>),
                        Ev("retry manually", opts.pkg, RetryCommand(opts.pkg))>>)
  /\ UNCHANGED <<argv, run, clock, opts, pkgFile, backups, files, pkgRaw, pkg, tmplIdx, start>>

\* The tool is invoked again, later, with the same arguments in the directory
\* the previous invocation left.
Invoke ==
  /\ pc = "exited"
  /\ run < MaxRuns
  /\ run' = run + 1
  /\ clock' = clock + 1
  /\ pc' = "ParseArgs"
  /\ opts' = DefaultOpts
  /\ pkgRaw' = NoFile
  /\ pkg' = Undefined
  /\ tmplIdx' = 0
  /\ exitCode' = {}
  /\ log' = <<>>
  /\ start' = [pkgFile |-> pkgFile, files |-> files,
               rewrote |-> \E i \in 1..Len(log) : log[i] = Ev("write", "package.json", <<>>)]
  /\ UNCHANGED <<argv, pkgFile, backups, files>>

Next ==
  \/ ParseArgs
  \/ ReadManifest
  \/ WriteBackup
  \/ MergeManifest
  \/ WriteStub
  \/ WriteTemplate
  \/ WriteLicense
  \/ Install
  \/ InstallerClose
  \/ Invoke

\* ---------------------------------------------------------------- inputs

\* Argument lists of at most n tokens over the tokens parseArgs tells apart:
\* each flag, valid and invalid manager names, a name, an unknown flag and
\* the empty string.
ArgTokens == {"-h", "--help", "--no-install", "--force", "--name", "--pkg", "-p",
              "yarn", "pnpm", "NPM", "bower", "--verbose", "Jane", ""}
ArgLists(n) == UNION {[1..m -> ArgTokens] : m \in 0..n}

\* Longer lists in which a help flag and a manager that is not supported meet.
LongerArgs == {<<"--pkg", "bower", "--help">>, <<"--help", "--pkg", "bower">>,
               <<"--name", "-h", "-p", "Yarn">>, <<"--verbose", "-p", "pnpm", "--no-install">>}

\* A few argument lists that reach every branch of main.
BasicArgs == {<<>>, <<"--no-install">>, <<"--force", "--no-install">>, <<"--pkg", "yarn">>,
              <<"--name", "Jane", "-p", "pnpm">>, <<"--force">>, <<"-p", "bower">>}

\* Values drawn for a top-level key or a script entry: the falsy ones and a
\* truthy one.
KeyValues == {JNull, JFalse, JZero, JStr(""), JStr("mine")}
ScriptsValues ==
  KeyValues \cup {JArr(<<>>), JObj(<<>>)}
    \cup {JObj(<< <<k, v>> >>) : k \in {ScriptKeys[i] : i \in 1..Len(ScriptKeys)} \cup {"test"},
                                v \in {JNull, JStr(""), JStr("mine")}}
AuthorValues == {JStr(""), JStr("Jane"), JStr("Ren<E9>")}
TopKeys == <<"type", "main", "module", "exports", "types", "files", "scripts", "author">>
ValuesOf(k) == IF k = "scripts" THEN ScriptsValues ELSE IF k = "author" THEN AuthorValues ELSE KeyValues

Reverse(q) == [i \in 1..Len(q) |-> q[Len(q) + 1 - i]]

\* The entries of the keys TopKeys[i], i in S, in the order of TopKeys, each
\* with one of its values.
RECURSIVE EntriesOf(_)
EntriesOf(S) ==
  IF S = {} THEN {<<>>}
  ELSE LET i == CHOOSE x \in S : \A y \in S : x >= y
       IN {Append(kv, <<TopKeys[i], v>>) : kv \in EntriesOf(S \ {i}), v \in ValuesOf(TopKeys[i])}

\* Manifest objects with at most n of the keys, in either order.
ManifestObjects(n) ==
  UNION {{JObj(kv) : kv \in EntriesOf(S)} \cup {JObj(Reverse(kv)) : kv \in EntriesOf(S)} :
           S \in {T \in SUBSET (1..Len(TopKeys)) : Cardinality(T) <= n}}

\* JSON texts whose value is not an object.
OtherJSON == {Text("compact", v) : v \in {JNull, JFalse, JZero, JStr("mine"), JArr(<<>>)}}

\* A few manifests of several keys, and the contents main stops at.
BasicManifests ==
  {NoFile, Garbage, Text("compact", JNull), Text("compact", JObj(<<>>)),
   Text("indent2", JObj(<< <<"author", JStr("Jane")>>, <<"type", JStr("")>> >>)),
   Text("compact", JObj(<< <<"scripts", JObj(<< <<"build", JStr("mine")>> >>)>>,
                           <<"author", JStr("Ren<E9>")>> >>))}

\* Contents of package.json: none, not JSON, JSON that is no object, and
\* JSON objects of at most n keys, laid out as the tool does or otherwise.
Manifests(n) ==
  {NoFile, Garbage} \cup OtherJSON
    \cup {Text("compact", v) : v \in ManifestObjects(n)}
    \cup {Text("indent2", v) : v \in ManifestObjects(0)}
    \cup BasicManifests

\* The other files: each absent or holding the user's text, or all of them
\* holding what the tool writes.
AllOf(content) == [f \in FileNames |-> content]
Defaults == [f \in FileNames |->
               IF f = "src/index.js" THEN stub
               ELSE IF f = "LICENSE" THEN licenseText(CurrentYear, "Your Name")
               ELSE DEFAULT_FILES(f)]
BasicFiles == {AllOf(Absent), AllOf(UserText), [AllOf(UserText) EXCEPT !["LICENSE"] = Absent]}
FileSystems == [FileNames -> {Absent, UserText}] \cup {Defaults}

\* The state when the tool is first invoked.
InitWith(args, manifests, fss) ==
  /\ argv \in args
  /\ pkgFile \in manifests
  /\ files \in fss
  /\ pc = "ParseArgs"
  /\ run = 1
  /\ clock = 1
  /\ opts = DefaultOpts
  /\ backups = [t \in 1..MaxRuns |-> NoFile]
  /\ pkgRaw = NoFile
  /\ pkg = Undefined
  /\ tmplIdx = 0
  /\ exitCode = {}
  /\ log = <<>>
  /\ start = [pkgFile |-> pkgFile, files |-> files, rewrote |-> FALSE]

Init == InitWith(BasicArgs, BasicManifests, BasicFiles)
Spec == Init /\ [][Next]_vars

\* Every argument list, over a directory with and without a manifest.
InitArgs ==
  InitWith(ArgLists(MaxArgs) \cup LongerArgs,
           {NoFile, Text("compact", JObj(<< <<"author", JStr("")>> >>))},
           {AllOf(Absent), AllOf(UserText)})
SpecArgs == InitArgs /\ [][Next]_vars

\* Every manifest drawn.
InitMerge ==
  InitWith({<<"--pkg", "yarn">>, <<"--force", "--no-install">>}, Manifests(MaxPresent), {AllOf(UserText)})
SpecMerge == InitMerge /\ [][Next]_vars

\* Every combination of files present.
InitFiles ==
  InitWith({<<"--no-install">>, <<"--force">>, <<"--pkg", "NPM", "--name", "Jane">>},
           {Text("compact", JObj(<<>>)), Garbage}, FileSystems)
SpecFiles == InitFiles /\ [][Next]_vars

\* With fairness: main takes its next step, and the installer the tool waits
\* for ends.
Step ==
  ParseArgs \/ ReadManifest \/ WriteBackup \/ MergeManifest \/ WriteStub \/ WriteTemplate
    \/ WriteLicense \/ Install
FairSpec == Init /\ [][Next]_vars /\ WF_vars(Step) /\ WF_vars(InstallerClose)

\* ------------------------------------------------------ reading the log

Logged(e) == \E i \in 1..Len(log) : log[i] = e
Wrote(f) == Logged(Ev("write", f, <<>>))
IsWrite(e) == e.k = "write"
IsSpawn(e) == e.k = "spawn"
IsStage(e) == e.k = "stage"
Entered(stage) == Logged(Stage(stage))
Uncaught == \E i \in 1..Len(log) : log[i].k = "uncaught"
TemplateSet == {TemplateNames[i] : i \in 1..Len(TemplateNames)}

\* ---------------------------------------------------------------- claims

\* C1: the merge never modifies or replaces a key that is present before it:
\* each of type, main, module, types, files, exports and each script entry
\* build:js, build:types, build, prepublishOnly that the parsed manifest
\* object holds has the same value after the merge, whatever that value is.
C1_Keys == {"type", "main", "module", "types", "files", "exports"}
C1_PresentKeysKept ==
  [][(pc = "MergeManifest" /\ pc' = "WriteStub" /\ pkg.t = "object") =>
       /\ \A k \in C1_Keys : HasKey(pkg, k) => Get(pkg', k) = Get(pkg, k)
       /\ Get(pkg, "scripts").t = "object" =>
            \A i \in 1..Len(ScriptKeys) :
              HasKey(Get(pkg, "scripts"), ScriptKeys[i]) =>
                Get(Get(pkg', "scripts"), ScriptKeys[i]) = Get(Get(pkg, "scripts"), ScriptKeys[i])]_vars

\* C2: in a run that rewrites package.json, the backup is written before
\* package.json is, and holds exactly what was read from package.json before
\* the merge; when the write of the backup fails, package.json is not rewritten.
C2_BackupBeforeRewrite ==
  /\ Wrote("package.json") =>
       /\ \E i, j \in 1..Len(log) :
            i < j /\ log[i] = Ev("write", "package.json.setup-backup", <<>>)
                  /\ log[j] = Ev("write", "package.json", <<>>)
       /\ backups[clock] = pkgRaw
       /\ pkgRaw = readFileUtf8(start.pkgFile)
  /\ Logged(Ev("uncaught", "backup write", <<>>)) =>
       /\ pc = "exited"
       /\ ~Wrote("package.json")
       /\ pkgFile = start.pkgFile
C2_Witness ==
  /\ pc = "exited"
  /\ Wrote("package.json")
  /\ pkgFile # start.pkgFile
  /\ backups[clock] # pkgFile
  /\ Get(pkgRaw.val, "author") = JStr("Ren<U+FFFD>")

C4_MissingManifest ==
  (start.pkgFile = NoFile /\ pc # "ParseArgs" /\ ~(pc = "exited" /\ ~Entered("MergeManifest"))) =>
    /\ pc \in {"ReadManifest", "exited"}
    /\ pc = "exited" => exitCode = {1}
    /\ \A i \in 1..Len(log) : ~IsWrite(log[i]) /\ ~IsSpawn(log[i])
    /\ pkgFile = NoFile
    /\ files = start.files
    /\ backups[clock] = NoFile
C4_Witness ==
  /\ start.pkgFile = NoFile /\ pc = "exited" /\ Entered("MergeManifest") /\ exitCode = {1}
  /\ run = 1 /\ opts.force /\ files = AllOf(Absent)

\* C5: when package.json, src/index.js, every template file and LICENSE
\* exist, a run without --force leaves the content of each of those files
\* unchanged and, once it is through them, has reported each as skipped.
AllExisted == \A f \in FileNames : start.files[f] # Absent
PastLicense == pc \in {"Install", "Installing"} \/ Entered("SkipInstall") \/ Entered("RunInstaller")
C5_ExistingFilesSkipped ==
  (AllExisted /\ start.pkgFile # NoFile /\ ~opts.force) =>
    /\ files = start.files
    /\ \A f \in FileNames : ~Wrote(f) /\ ~Logged(Ev("wrote", f, <<>>))
    /\ PastLicense => \A f \in FileNames : Logged(Ev("skipped", f, <<>>))
C5_Witness ==
  /\ pc = "exited" /\ exitCode = {0} /\ ~opts.force /\ opts.name = "Jane"
  /\ start.files = AllOf(UserText)
  /\ PastLicense
  /\ Logged(Ev("skipped", "README.md", <<>>))

\* C6: with package.json present and --force in effect, once the template
\* stage is over every template file and the src/index.js stub holds its
\* fixed default content, whatever it held before, and is reported written.
AfterTemplates == pc = "WriteLicense" \/ Entered("WriteLicense")
C6_ForceRewrites ==
  (opts.force /\ AfterTemplates) =>
    /\ \A f \in TemplateSet : files[f] = DEFAULT_FILES(f) /\ Logged(Ev("wrote", f, <<>>))
    /\ files["src/index.js"] = stub /\ Logged(Ev("wrote", "src/index.js", <<>>))
C6_Witness ==
  /\ opts.force /\ pc = "exited" /\ Entered("WriteLicense")
  /\ start.files \in {[AllOf(UserText) EXCEPT ![".gitignore"] = Absent]}

\* C7 as stated: in a run given --no-install, with package.json present, no
\* subprocess of any kind is spawned and the run, unless an error nothing
\* handles ends it, exits with code 0.
C7_NoSubprocess ==
  (opts.noInstall /\ start.pkgFile # NoFile) =>
    /\ \A i \in 1..Len(log) : ~IsSpawn(log[i])
    /\ (pc = "exited" /\ ~Uncaught) => exitCode = {0}

\* C7 as amended: in a run given --no-install the installer is never spawned
\* and the run, unless an error nothing handles ends it, exits with code 0;
\* the one subprocess it may spawn, once, is `git config --get user.name`,
\* and it spawns it exactly when it writes LICENSE (absent, or --force) with
\* neither --name nor a truthy manifest author to name.
C7_OnlyGitSpawned ==
  (opts.noInstall /\ start.pkgFile # NoFile) =>
    /\ \A i \in 1..Len(log) : IsSpawn(log[i]) => log[i] = Ev("spawn", "execSync", GitCommand)
    /\ Cardinality({i \in 1..Len(log) : IsSpawn(log[i])}) <= 1
    /\ Logged(Ev("spawn", "execSync", GitCommand)) <=>
         /\ Wrote("LICENSE")
         /\ start.files["LICENSE"] = Absent \/ opts.force
         /\ opts.name = ""
         /\ ~Truthy(Get(pkg, "author"))
    /\ pc # "Installing"
    /\ (pc = "exited" /\ ~Uncaught) => exitCode = {0}
C7_Witness ==
  /\ opts.noInstall /\ pc = "exited" /\ exitCode = {0} /\ Entered("SkipInstall")
  /\ Logged(Ev("spawn", "execSync", GitCommand))
  /\ files["LICENSE"] = licenseText(CurrentYear, "Git User")

\* C8: when the install is not skipped, exactly one installer is started,
\* after every file write, with the selected manager's command followed by
\* the dependency list in order; if it ends with a code other than 0 the run
\* prints, as the command to retry, the command it ran, and exits with code 2
\* without a second attempt; if it ends with 0 the run exits with code 0.
C8_Deps == <<"@rollup/plugin-commonjs@^29.0.0", "@rollup/plugin-node-resolve@^16.0.3",
             "rollup@^2.79.2", "rollup-plugin-terser@^7.0.2", "typescript@^5.9.3",
             "@types/node@^24.10.1">>
C8_Command(manager) ==
  (CASE manager = "npm" -> <<"npm", "install", "--save-dev">>
     [] manager = "pnpm" -> <<"pnpm", "add", "-D">>
     [] manager = "yarn" -> <<"yarn", "add", "--dev">>) \o C8_Deps
C8_Installers == {i \in 1..Len(log) : log[i].k = "spawn" /\ log[i].f = "runCmd"}
C8_InstallerRun ==
  /\ (~opts.noInstall /\ pc \in {"Installing", "exited"} /\ Entered("WriteLicense")) =>
       Entered("RunInstaller")
  /\ Entered("RunInstaller") =>
       /\ Cardinality(C8_Installers) = 1
       /\ \A i \in C8_Installers :
            /\ log[i].c = C8_Command(opts.pkg)
            /\ \A j \in 1..Len(log) : IsWrite(log[j]) => j < i
            /\ pc = "exited" =>
                 \/ Logged(Ev("close", "0", <<>>)) /\ exitCode = {0}
                 \/ /\ \E code \in ChildCodes \ {"0"} : Logged(Ev("close", code, <<>>))
                    /\ Logged(Ev("retry manually", opts.pkg, log[i].c))
                    /\ exitCode = {2}
C8_Witness ==
  /\ pc = "exited" /\ exitCode = {2} /\ opts.pkg = "yarn"
  /\ Logged(Ev("close", "1", <<>>))
  /\ Logged(Ev("retry manually", "yarn", C8_Command("yarn")))

\* Whether the parser ended the process, and that nothing was touched.
ParserExited == pc = "exited" /\ ~Entered("MergeManifest")
NoEffects ==
  /\ \A i \in 1..Len(log) : ~IsWrite(log[i]) /\ ~IsSpawn(log[i])
  /\ files = start.files
  /\ pkgFile = start.pkgFile
  /\ backups[clock] = NoFile
C9_Help == {"-h", "--help"}
C9_PkgFlags == {"--pkg", "-p"}
C9_Known == C9_Help \cup C9_PkgFlags \cup {"--no-install", "--force", "--name"}
\* The token at i is taken as the value of the --name or --pkg/-p before it.
C9_Value[i \in 1..Len(argv)] ==
  /\ i > 1
  /\ ~C9_Value[i - 1]
  /\ argv[i - 1] \in C9_PkgFlags \cup {"--name"}
  /\ argv[i] # ""
Without(q, i) == [j \in 1..(Len(q) - 1) |-> IF j < i THEN q[j] ELSE q[j + 1]]
\* The token at i does not bear on the outcome: the scan of the list without
\* it ends the same way with the same record.
C9_Ignored(i) ==
  LET r == ParseLoop(Without(argv, i), 1, DefaultOpts)
  IN /\ r.exits <=> ParserExited
     /\ r.exits => exitCode = {r.code}
     /\ ~r.exits => r.out = opts
\* An unknown flag (a token, not empty, that the scan meets as a flag and
\* does not know) never ends the process and never changes the record.
C9_UnknownIgnored ==
  \A i \in 1..Len(argv) :
    (~C9_Value[i] /\ argv[i] \notin C9_Known /\ argv[i] # "") => C9_Ignored(i)

\* C9 as stated: whenever the parser ends the process, nothing was written
\* or spawned, the exit code is 0 when the argument list is empty or holds a
\* help flag and 1 when the value of --pkg/-p is none of npm, pnpm, yarn; and
\* an unknown flag never ends the process nor changes the record.
C9_ParserExit ==
  pc # "ParseArgs" =>
    /\ ParserExited =>
         /\ NoEffects
         /\ (Len(argv) = 0 \/ \E i \in 1..Len(argv) : argv[i] \in C9_Help) => exitCode = {0}
         /\ (\E i \in 1..Len(argv) : /\ argv[i] \in C9_PkgFlags
                                      /\ i < Len(argv)
                                      /\ argv[i + 1] \notin {"npm", "pnpm", "yarn"}) => exitCode = {1}
    /\ C9_UnknownIgnored

\* C9 as amended: whenever the parser ends the process, nothing was written
\* or spawned; the process is ended, and its exit code decided, by the first
\* token in flag position (not taken as the value of --name or --pkg/-p) that
\* is a help flag, for code 0, or a --pkg/-p whose value is missing, empty
\* or, lowercased, none of npm, pnpm, yarn, for code 1; an empty list ends
\* it with code 0; an unknown flag never ends the process nor changes the
\* record.
C9_Accepted == {"npm", "pnpm", "yarn", "NPM", "Yarn"}
C9_Terminators ==
  {i \in 1..Len(argv) :
     /\ ~C9_Value[i]
     /\ \/ argv[i] \in C9_Help
        \/ argv[i] \in C9_PkgFlags /\ (i = Len(argv) \/ argv[i + 1] \notin C9_Accepted)}
C9_First == CHOOSE i \in C9_Terminators : \A j \in C9_Terminators : i <= j
C9_FirstTerminator ==
  pc # "ParseArgs" =>
    /\ ParserExited <=> (Len(argv) = 0 \/ C9_Terminators # {})
    /\ ParserExited =>
         /\ NoEffects
         /\ exitCode = IF Len(argv) = 0 \/ argv[C9_First] \in C9_Help THEN {0} ELSE {1}
    /\ C9_UnknownIgnored
C9_Witness ==
  /\ ParserExited /\ exitCode = {1}
  /\ argv = <<"--pkg", "bower", "--help">>

\* C10: the stages of a run are entered in the order ParseArgs,
\* MergeManifest, WriteTemplates, WriteLicense, then SkipInstall or
\* RunInstaller, none twice, each thing the run does falling in its own
\* stage; and, the installer ending, every run ends the process with an exit
\* code of 0, 1 or 2.
C10_Orders ==
  {<<"ParseArgs", "MergeManifest", "WriteTemplates", "WriteLicense", last>> :
     last \in {"SkipInstall", "RunInstaller"}}
C10_Entries == SelectSeq(log, IsStage)
C10_Stages == [i \in 1..Len(C10_Entries) |-> C10_Entries[i].f]
IsPrefix(a, b) == Len(a) <= Len(b) /\ \A i \in 1..Len(a) : a[i] = b[i]
\* The stage whose entry is the last one logged before position i.
C10_StageAt(i) ==
  LET before == {j \in 1..i : IsStage(log[j])}
  IN IF before = {} THEN "none" ELSE log[CHOOSE j \in before : \A m \in before : m <= j].f
\* The stages an entry of the log may fall in.
C10_StagesOf(e) ==
  IF e.k = "usage" THEN {"ParseArgs"}
  ELSE IF e.k = "error" THEN {"ParseArgs", "MergeManifest"}
  ELSE IF e.k \in {"backed up", "updated", "uncaught"} THEN {"MergeManifest"}
  ELSE IF e.k \in {"write", "wrote", "skipped"} THEN
    (IF e.f \in {"package.json", "package.json.setup-backup"} THEN {"MergeManifest"}
     ELSE IF e.f = "LICENSE" THEN {"WriteLicense"} ELSE {"WriteTemplates"})
  ELSE IF e.k = "spawn" /\ e.f = "execSync" THEN {"WriteLicense"}
  ELSE IF e.k \in {"skipping install", "done"} THEN {"SkipInstall"}
  ELSE {"RunInstaller"}
C10_StageOrder ==
  /\ \E o \in C10_Orders : IsPrefix(C10_Stages, o)
  /\ \A i \in 1..Len(log) : ~IsStage(log[i]) => C10_StageAt(i) \in C10_StagesOf(log[i])
  /\ pc = "exited" <=> exitCode # {}
  /\ exitCode \in {{}, {0}, {1}, {2}}
C10_Terminates == (pc # "exited") ~> (pc = "exited" /\ exitCode \in {{0}, {1}, {2}})
C10_StagesAndTermination == []C10_StageOrder /\ C10_Terminates
C10_Witness ==
  /\ pc = "exited" /\ exitCode = {2} /\ run = 2
  /\ C10_Stages = <<"ParseArgs", "MergeManifest", "WriteTemplates", "WriteLicense", "RunInstaller">>

====
